---- MODULE Spec2Model ----
(***************************************************************************)
(* The request handlers of apps/user/views.py over one relational store:   *)
(* the User table, the ActionToken table and the TemporaryToken table.     *)
(* One action per handler; every request is handled to completion before   *)
(* the next one starts (spec.md section 5).                                *)
(*                                                                         *)
(* A user is identified by its primary key; its e-mail address is          *)
(* represented by the same number, e-mail addresses being unique.          *)
(***************************************************************************)
EXTENDS Integers, FiniteSets, Sequences, Bags, TLC

\* ---- bounds of the model ------------------------------------------------
MaxUsers == 2
MaxKeys == 2

UserIds == 1..MaxUsers
Keys == 1..MaxKeys
Passwords == {"pw1", "pw2"}

\* request.user of a request that carries no credentials (AnonymousUser)
Anonymous == 0
\* request.data.get(...) of a field the body does not carry (None)
None == 0
\* the pk "me" of the URL
Me == -1
\* a pk of the URL that no stored user has
PkDomain == UserIds \cup {MaxUsers + 1, Me}

VARIABLES
    settings,       \* settings.LOCAL_SETTINGS
    users,          \* User table: pk -> row
    actionTokens,   \* ActionToken table: bag of rows (two rows may be equal)
    tempTokens,     \* TemporaryToken table: set of rows
    resp,           \* the last request and the response it got
    used,           \* activation keys consumed and not issued again since
    spent           \* password_change keys consumed

vars == <<settings, users, actionTokens, tempTokens, resp, used, spent>>

\* ---- model rows -----------------------------------------------------------

\* user.set_password(raw) stores a hash of the raw password, never the password
make_password(raw) == <<"pbkdf2", raw>>

\* check_password(raw, stored)
check_password(raw, stored) == stored = make_password(raw)

UserRow(active, staff, raw) ==
    [is_active |-> active, is_staff |-> staff, password |-> make_password(raw)]

ActionTokenRow(key, type, user) ==
    [key |-> key, type |-> type, user |-> user, expired |-> FALSE]

\* ActionToken.save() of a new row: the key is drawn at random and is not the
\* key of a stored row.  A request that needs a key while every key of Keys
\* is stored is not taken.
FreshKeys == Keys \ {t.key : t \in BagToSet(actionTokens)}

\* ActionToken.objects.create
CreateActionToken(key, type, user) ==
    actionTokens (+) SetToBag({ActionTokenRow(key, type, user)})

\* the stored rows among `rows`, each as often as it is stored: a queryset
Filter(rows) ==
    [t \in rows \cap BagToSet(actionTokens) |-> actionTokens[t]]

\* ---- the response record ---------------------------------------------------
\* op, who, arg: the request (handler, request.user, URL or body argument);
\* status, body, error: the response (the user or token key it carries, the
\* field its error message is filed under); sent: the mail the request sent;
\* again: the request repeats the one before it (recorded for destroy only).
Response(op, who, arg, status, body) ==
    [op |-> op, who |-> who, arg |-> arg, status |-> status, body |-> body,
     error |-> "", sent |-> <<>>,
     again |-> (op = "destroy" /\ resp.op = op /\ resp.who = who /\ resp.arg = arg)]

ErrorResponse(op, who, arg, status, field) ==
    [Response(op, who, arg, status, None) EXCEPT !.error = field]

MailResponse(op, who, arg, status, body, mail, to) ==
    [Response(op, who, arg, status, body) EXCEPT !.sent = <<[mail |-> mail, to |-> to]>>]

NoResponse ==
    [op |-> "none", who |-> Anonymous, arg |-> None, status |-> 0, body |-> None,
     error |-> "", sent |-> <<>>, again |-> FALSE]

\* ---- Init ------------------------------------------------------------------
\* A deployment starts with one staff account (createsuperuser).  The token
\* table is empty, or holds two rows with the same key: the case the handlers
\* count for ("multiple identical token exists", views.py:152).
InitialTokens ==
    { EmptyBag,
      ActionTokenRow(1, "account_activation", 1) :> 2,
      ActionTokenRow(1, "password_change", 1) :> 2 }

Init ==
    /\ settings \in [EMAIL_SERVICE : {"True", "False", "None"},
                     AUTO_ACTIVATE_USER : BOOLEAN]
    /\ users = (1 :> UserRow(TRUE, TRUE, "pw1"))
    /\ actionTokens \in InitialTokens
    /\ tempTokens = {}
    /\ resp = NoResponse
    /\ used = {}
    /\ spent = {}

\* ---- permissions and object lookup ------------------------------------------

\* UserViewSet.get_permissions: the permission classes of an action
get_permissions(action) ==
    IF action = "create" THEN {}
    ELSE IF action = "list" THEN {"IsAdminUser"}
    ELSE {"IsAuthenticated", "IsOwner"}

\* BasePermission.has_permission of each class, for the request's user
has_permission(perm, requester) ==
    CASE perm = "IsAuthenticated" -> requester # Anonymous
      [] perm = "IsAdminUser" -> requester # Anonymous /\ users[requester].is_staff
      [] OTHER -> TRUE

\* APIView.check_permissions, run before the handler method is called
check_permissions(action, requester) ==
    \A perm \in get_permissions(action) : has_permission(perm, requester)

\* permissions.IsOwner.has_object_permission: a user row is owned by that
\* user; staff is admitted on every row.
has_object_permission(requester, obj) ==
    obj = requester \/ users[requester].is_staff

\* UserViewSet.get_queryset: the pk "me" is replaced by the requester's id
get_queryset(requester, pk) == IF pk = Me THEN requester ELSE pk

\* GenericAPIView.get_object over get_queryset: the row is looked up first
\* (Http404), its object permissions are checked second (PermissionDenied).
get_object(requester, pk) ==
    LET obj == get_queryset(requester, pk)
    IN  IF obj \notin DOMAIN users THEN "Http404"
        ELSE IF ~has_object_permission(requester, obj) THEN "PermissionDenied"
        ELSE "ok"

\* the exception handler's status of each outcome of a handler
StatusOf(outcome, ok) ==
    CASE outcome = "Http404" -> 404
      [] outcome = "PermissionDenied" -> 403
      [] outcome = "ValidationError" -> 400
      [] OTHER -> ok

Requesters == DOMAIN users \cup {Anonymous}
Guarded == {"list", "retrieve", "update", "partial_update", "destroy"}

\* APIView.initial: a request whose user fails the action's permission classes
\* is answered before the handler method runs, 401 without credentials and 403
\* with them.
initial(action, requester) ==
    /\ ~check_permissions(action, requester)
    /\ resp' = Response("initial", requester, None,
                        IF requester = Anonymous THEN 401 ELSE 403, None)
    /\ UNCHANGED <<settings, users, actionTokens, tempTokens, used, spent>>

\* ---- UserViewSet -------------------------------------------------------------

UserViewSet_list(requester) ==
    /\ check_permissions("list", requester)
    /\ resp' = Response("list", requester, None, 200, None)
    /\ UNCHANGED <<settings, users, actionTokens, tempTokens, used, spent>>

\* retrieve and update without the try/except around the mixin's call
MapHttp404_unmapped(requester, outcome) == outcome

\* the outcome of retrieve and of update: for a requester who is not staff an
\* Http404 of the mixin is re-raised as PermissionDenied
MapHttp404(requester, outcome) ==
    IF users[requester].is_staff THEN outcome
    ELSE IF outcome = "Http404" THEN "PermissionDenied"
    ELSE outcome

UserViewSet_retrieve(requester, pk) ==
    /\ check_permissions("retrieve", requester)
    /\ LET outcome == MapHttp404(requester, get_object(requester, pk))
       IN  resp' = Response("retrieve", requester, pk, StatusOf(outcome, 200),
                            IF outcome = "ok" THEN get_queryset(requester, pk) ELSE None)
    /\ UNCHANGED <<settings, users, actionTokens, tempTokens, used, spent>>

\* UserUpdateSerializer.save: the fields of the row the body carries are
\* written; of the fields modelled, that is the password.
perform_update(obj, raw) ==
    [users EXCEPT ![obj].password = make_password(raw)]

\* UpdateModelMixin.update: get_object, then validation, then the save
super_update(requester, pk, valid) ==
    LET found == get_object(requester, pk)
    IN  IF found # "ok" THEN found
        ELSE IF ~valid THEN "ValidationError"
        ELSE "ok"

UserViewSet_update(action, requester, pk, raw, valid) ==
    /\ action \in {"update", "partial_update"}
    /\ check_permissions(action, requester)
    /\ LET outcome == MapHttp404(requester, super_update(requester, pk, valid))
           obj == get_queryset(requester, pk)
       IN  /\ users' = IF outcome = "ok" THEN perform_update(obj, raw) ELSE users
           /\ resp' = Response(action, requester, pk,
                               StatusOf(outcome, 200),
                               IF outcome = "ok" THEN obj ELSE None)
    /\ UNCHANGED <<settings, actionTokens, tempTokens, used, spent>>

\* destroy left to DestroyModelMixin: the row is deleted
UserViewSet_destroy_deletes(requester, pk) ==
    /\ check_permissions("destroy", requester)
    /\ LET outcome == get_object(requester, pk)
           obj == get_queryset(requester, pk)
       IN  /\ users' = IF outcome = "ok"
                       THEN [u \in DOMAIN users \ {obj} |-> users[u]]
                       ELSE users
           /\ resp' = Response("destroy", requester, pk,
                               IF outcome = "PermissionDenied" THEN 403 ELSE 204, None)
    /\ UNCHANGED <<settings, actionTokens, tempTokens, used, spent>>

\* destroy that flips the flag instead of clearing it
UserViewSet_destroy_toggles(requester, pk) ==
    /\ check_permissions("destroy", requester)
    /\ LET outcome == get_object(requester, pk)
           obj == get_queryset(requester, pk)
       IN  /\ users' = IF outcome = "ok"
                       THEN [users EXCEPT ![obj].is_active = ~users[obj].is_active]
                       ELSE users
           /\ resp' = Response("destroy", requester, pk,
                               IF outcome = "PermissionDenied" THEN 403 ELSE 204, None)
    /\ UNCHANGED <<settings, actionTokens, tempTokens, used, spent>>

UserViewSet_destroy(requester, pk) ==
    /\ check_permissions("destroy", requester)
    /\ LET outcome == get_object(requester, pk)
           obj == get_queryset(requester, pk)
       IN  /\ users' = IF outcome = "ok"
                       THEN [users EXCEPT ![obj].is_active = FALSE]
                       ELSE users
           /\ resp' = Response("destroy", requester, pk,
                               IF outcome = "PermissionDenied" THEN 403 ELSE 204,
                               None)
    /\ UNCHANGED <<settings, actionTokens, tempTokens, used, spent>>

\* user.send_confirm_signup_email: an account_activation token is issued to
\* the user and mailed to the address
send_confirm_signup_email(user, key) ==
    CreateActionToken(key, "account_activation", user)

\* CreateModelMixin.create: the serializer rejects a body that is invalid or
\* whose e-mail address a stored user has; the row is created inactive, and
\* activated at once under AUTO_ACTIVATE_USER.
UserViewSet_create(email, raw, valid) ==
    IF ~valid \/ email \in DOMAIN users
    THEN /\ resp' = Response("create", Anonymous, email, 400, None)
         /\ UNCHANGED <<settings, users, actionTokens, tempTokens, used, spent>>
    ELSE /\ \E key \in FreshKeys :
              /\ users' = (email :> UserRow(settings.AUTO_ACTIVATE_USER, FALSE, raw))
                          @@ users
              /\ actionTokens' = send_confirm_signup_email(email, key)
              /\ used' = used \ {key}
              /\ resp' = MailResponse("create", Anonymous, email, 201, email,
                                      "confirm_signup", email)
         /\ UNCHANGED <<settings, tempTokens, spent>>

\* ---- UsersActivation ---------------------------------------------------------

\* the filter without its type argument
ActivationTokens_any_type(activation_token) ==
    Filter({t \in BagToSet(actionTokens) : t.key = activation_token})

\* ActionToken.objects.filter(key=..., type='account_activation')
ActivationTokens(activation_token) ==
    Filter({t \in BagToSet(actionTokens) :
               t.key = activation_token /\ t.type = "account_activation"})

\* activation that deletes every token of the user, not the one it used
UsersActivation_post_drops_user_tokens(activation_token) ==
    LET token == ActivationTokens(activation_token)
    IN  IF BagCardinality(token) = 1
        THEN LET t == CHOOSE x \in DOMAIN token : TRUE
             IN  /\ users' = [users EXCEPT ![t.user].is_active = TRUE]
                 /\ actionTokens' = Filter({x \in BagToSet(actionTokens) :
                                               x.user # t.user})
                 /\ used' = used \cup {activation_token}
                 /\ resp' = Response("activate", Anonymous, activation_token, 200, t.user)
                 /\ UNCHANGED <<settings, tempTokens, spent>>
        ELSE /\ resp' = ErrorResponse("activate", Anonymous, activation_token, 400,
                                      "activation_token")
             /\ UNCHANGED <<settings, users, actionTokens, tempTokens, used, spent>>

\* activation that leaves the token it used in the table
UsersActivation_post_keeps_token(activation_token) ==
    LET token == ActivationTokens(activation_token)
    IN  IF BagCardinality(token) = 1
        THEN LET t == CHOOSE x \in DOMAIN token : TRUE
             IN  /\ users' = [users EXCEPT ![t.user].is_active = TRUE]
                 /\ used' = used \cup {activation_token}
                 /\ resp' = Response("activate", Anonymous, activation_token, 200, t.user)
                 /\ UNCHANGED <<settings, actionTokens, tempTokens, spent>>
        ELSE /\ resp' = ErrorResponse("activate", Anonymous, activation_token, 400,
                                      "activation_token")
             /\ UNCHANGED <<settings, users, actionTokens, tempTokens, used, spent>>

UsersActivation_post(activation_token) ==
    LET token == ActivationTokens(activation_token)
    IN  IF BagCardinality(token) = 1
        THEN LET t == CHOOSE x \in DOMAIN token : TRUE
             IN  /\ users' = [users EXCEPT ![t.user].is_active = TRUE]
                 /\ actionTokens' = actionTokens (-) SetToBag({t})
                 /\ used' = used \cup {activation_token}
                 /\ resp' = Response("activate", Anonymous, activation_token, 200, t.user)
                 /\ UNCHANGED <<settings, tempTokens, spent>>
        ELSE /\ resp' = ErrorResponse("activate", Anonymous, activation_token, 400,
                                      "activation_token")
             /\ UNCHANGED <<settings, users, actionTokens, tempTokens, used, spent>>

\* ---- ResetPassword -----------------------------------------------------------

\* user.send_reset_password: a password_change token is issued to the user
\* and mailed to the address
send_reset_password(user, key) ==
    CreateActionToken(key, "password_change", user)

\* ResetPasswordSerializer: the body names a stored user by e-mail address
ResetPasswordSerializer_is_valid(email) == email \in DOMAIN users

\* reset that validates the body before it looks at EMAIL_SERVICE
ResetPassword_post_validates_first(email) ==
    IF ~ResetPasswordSerializer_is_valid(email)
    THEN /\ resp' = ErrorResponse("reset", Anonymous, email, 400, "email")
         /\ UNCHANGED <<settings, users, actionTokens, tempTokens, used, spent>>
    ELSE IF settings.EMAIL_SERVICE # "True"
    THEN /\ resp' = Response("reset", Anonymous, email, 501, None)
         /\ UNCHANGED <<settings, users, actionTokens, tempTokens, used, spent>>
    ELSE /\ \E key \in FreshKeys :
              /\ actionTokens' = send_reset_password(email, key)
              /\ used' = used \ {key}
              /\ resp' = MailResponse("reset", Anonymous, email, 201, None,
                                      "reset_password", email)
         /\ UNCHANGED <<settings, users, tempTokens, spent>>

ResetPassword_post(email) ==
    IF settings.EMAIL_SERVICE # "True"
    THEN /\ resp' = Response("reset", Anonymous, email, 501, None)
         /\ UNCHANGED <<settings, users, actionTokens, tempTokens, used, spent>>
    ELSE IF ~ResetPasswordSerializer_is_valid(email)
    THEN /\ resp' = ErrorResponse("reset", Anonymous, email, 400, "email")
         /\ UNCHANGED <<settings, users, actionTokens, tempTokens, used, spent>>
    ELSE /\ \E key \in FreshKeys :
              /\ actionTokens' = send_reset_password(email, key)
              /\ used' = used \ {key}
              /\ resp' = MailResponse("reset", Anonymous, email, 201, None,
                                      "reset_password", email)
         /\ UNCHANGED <<settings, users, tempTokens, spent>>

\* ---- ChangePassword ----------------------------------------------------------

\* ChangePasswordSerializer: both fields are required and the new password
\* passes the password validators
ChangePasswordSerializer_is_valid(token_key, new_password) ==
    token_key # None /\ new_password \in Passwords

\* ActionToken.get_password_change_token: the password_change tokens of that
\* key that have not expired; the lookup fails unless there is exactly one
get_password_change_token(token_key) ==
    Filter({t \in BagToSet(actionTokens) :
               t.key = token_key /\ t.type = "password_change" /\ ~t.expired})

\* token.expire()
expire(t) ==
    (actionTokens (-) SetToBag({t})) (+) SetToBag({[t EXCEPT !.expired = TRUE]})

\* change that does not expire the token it used
ChangePassword_post_no_expire(token_key, new_password) ==
    LET found == get_password_change_token(token_key)
    IN  IF ~ChangePasswordSerializer_is_valid(token_key, new_password)
           \/ BagCardinality(found) # 1
        THEN /\ resp' = ErrorResponse("change", Anonymous, token_key, 400, "token")
             /\ UNCHANGED <<settings, users, actionTokens, tempTokens, used, spent>>
        ELSE LET token == CHOOSE x \in DOMAIN found : TRUE
             IN  /\ users' = [users EXCEPT
                                ![token.user].password = make_password(new_password)]
                 /\ spent' = spent \cup {token_key}
                 /\ resp' = Response("change", Anonymous, token_key, 200, token.user)
                 /\ UNCHANGED <<settings, actionTokens, tempTokens, used>>

\* change that takes the first matching token when several match
ChangePassword_post_takes_first(token_key, new_password) ==
    LET found == get_password_change_token(token_key)
    IN  IF ~ChangePasswordSerializer_is_valid(token_key, new_password)
           \/ BagCardinality(found) = 0
        THEN /\ resp' = ErrorResponse("change", Anonymous, token_key, 400, "token")
             /\ UNCHANGED <<settings, users, actionTokens, tempTokens, used, spent>>
        ELSE LET token == CHOOSE x \in DOMAIN found : TRUE
             IN  /\ users' = [users EXCEPT
                                ![token.user].password = make_password(new_password)]
                 /\ actionTokens' = expire(token)
                 /\ spent' = spent \cup {token_key}
                 /\ resp' = Response("change", Anonymous, token_key, 200, token.user)
                 /\ UNCHANGED <<settings, tempTokens, used>>

ChangePassword_post(token_key, new_password) ==
    LET found == get_password_change_token(token_key)
    IN  IF ~ChangePasswordSerializer_is_valid(token_key, new_password)
           \/ BagCardinality(found) # 1
        THEN /\ resp' = ErrorResponse("change", Anonymous, token_key, 400,
                                      IF token_key # None /\ new_password \notin Passwords
                                      THEN "new_password" ELSE "token")
             /\ UNCHANGED <<settings, users, actionTokens, tempTokens, used, spent>>
        ELSE LET token == CHOOSE x \in DOMAIN found : TRUE
             IN  /\ users' = [users EXCEPT
                                ![token.user].password = make_password(new_password)]
                 /\ actionTokens' = expire(token)
                 /\ spent' = spent \cup {token_key}
                 /\ resp' = Response("change", Anonymous, token_key, 200, token.user)
                 /\ UNCHANGED <<settings, tempTokens, used>>

\* ---- ObtainTemporaryAuthToken ------------------------------------------------

\* CustomAuthTokenSerializer: the credentials name a stored, active user and
\* carry that user's password
CustomAuthTokenSerializer_is_valid(login, password) ==
    /\ login \in DOMAIN users
    /\ users[login].is_active
    /\ check_password(password, users[login].password)

FreshTempKeys == Keys \ {t.key : t \in tempTokens}

ObtainTemporaryAuthToken_post(login, password) ==
    IF ~CustomAuthTokenSerializer_is_valid(login, password)
    THEN /\ resp' = Response("login", Anonymous, login, 400, None)
         /\ UNCHANGED <<settings, users, actionTokens, tempTokens, used, spent>>
    ELSE \* user.get_temporary_token: the user's token, created when there is none
         /\ \/ \E t \in tempTokens :
                 /\ t.user = login
                 /\ tempTokens' = tempTokens
                 /\ resp' = Response("login", Anonymous, login, 200, t.key)
            \/ /\ \A t \in tempTokens : t.user # login
               /\ \E key \in FreshTempKeys :
                    /\ tempTokens' = tempTokens \cup {[key |-> key, user |-> login]}
                    /\ resp' = Response("login", Anonymous, login, 200, key)
         /\ UNCHANGED <<settings, users, actionTokens, used, spent>>

\* ---- TemporaryTokenDestroy ---------------------------------------------------

\* the queryset without its user argument
TemporaryTokenDestroy_get_queryset_any_user(requester, pk) ==
    {t \in tempTokens : t.key = pk}

\* TemporaryTokenDestroy.get_queryset
TemporaryTokenDestroy_get_queryset(requester, pk) ==
    {t \in tempTokens : t.key = pk /\ t.user = requester}

\* DestroyModelMixin.destroy over get_queryset: 404 when no row is found
TemporaryTokenDestroy_destroy(requester, pk) ==
    LET tokens == TemporaryTokenDestroy_get_queryset(requester, pk)
    IN  /\ requester \in DOMAIN users
        /\ tempTokens' = tempTokens \ tokens
        /\ resp' = Response("logout", requester, pk,
                            IF tokens = {} THEN 404 ELSE 204, None)
        /\ UNCHANGED <<settings, users, actionTokens, used, spent>>

\* ---- the specifications ------------------------------------------------------

\* every handler, every input
Next ==
    \/ \E a \in Guarded, r \in Requesters : initial(a, r)
    \/ \E r \in Requesters : UserViewSet_list(r)
    \/ \E r \in Requesters, pk \in PkDomain : UserViewSet_retrieve(r, pk)
    \/ \E a \in {"update", "partial_update"}, r \in Requesters, pk \in PkDomain,
          raw \in Passwords, valid \in BOOLEAN :
          UserViewSet_update(a, r, pk, raw, valid)
    \/ \E r \in Requesters, pk \in PkDomain : UserViewSet_destroy(r, pk)
    \/ \E email \in UserIds, raw \in Passwords, valid \in BOOLEAN :
          UserViewSet_create(email, raw, valid)
    \/ \E k \in Keys \cup {None} : UsersActivation_post(k)
    \/ \E email \in UserIds \cup {MaxUsers + 1} : ResetPassword_post(email)
    \/ \E k \in Keys \cup {None}, p \in Passwords \cup {""} : ChangePassword_post(k, p)
    \/ \E u \in UserIds, p \in Passwords : ObtainTemporaryAuthToken_post(u, p)
    \/ \E r \in UserIds, k \in Keys : TemporaryTokenDestroy_destroy(r, k)

Spec == Init /\ [][Next]_vars

\* sign-up, activation and deactivation, with the password_change tokens that
\* ResetPassword issues next to the activation tokens
NextActivation ==
    \/ \E email \in UserIds, valid \in BOOLEAN : UserViewSet_create(email, "pw1", valid)
    \/ \E k \in Keys \cup {None} : UsersActivation_post(k)
    \/ \E email \in UserIds \cup {MaxUsers + 1} : ResetPassword_post(email)
    \/ \E r \in Requesters, pk \in PkDomain : UserViewSet_destroy(r, pk)

SpecActivation == Init /\ [][NextActivation]_vars

\* password reset and change
NextPassword ==
    \/ \E email \in UserIds, valid \in BOOLEAN : UserViewSet_create(email, "pw1", valid)
    \/ \E email \in UserIds \cup {MaxUsers + 1} : ResetPassword_post(email)
    \/ \E k \in Keys \cup {None}, p \in Passwords \cup {""} : ChangePassword_post(k, p)

SpecPassword == Init /\ [][NextPassword]_vars

\* the User view set
NextAccount ==
    \/ \E a \in Guarded, r \in Requesters : initial(a, r)
    \/ \E r \in Requesters : UserViewSet_list(r)
    \/ \E r \in Requesters, pk \in PkDomain : UserViewSet_retrieve(r, pk)
    \/ \E a \in {"update", "partial_update"}, r \in Requesters, pk \in PkDomain,
          valid \in BOOLEAN :
          UserViewSet_update(a, r, pk, "pw2", valid)
    \/ \E r \in Requesters, pk \in PkDomain : UserViewSet_destroy(r, pk)
    \/ \E email \in UserIds, valid \in BOOLEAN : UserViewSet_create(email, "pw1", valid)

\* no handler of the view set reads EMAIL_SERVICE or the tokens stored at start
InitAccount == Init /\ settings.EMAIL_SERVICE = "True" /\ actionTokens = EmptyBag

SpecAccount == InitAccount /\ [][NextAccount]_vars

\* login and logout
NextSession ==
    \/ \E email \in UserIds : UserViewSet_create(email, "pw1", TRUE)
    \/ \E u \in UserIds, p \in Passwords : ObtainTemporaryAuthToken_post(u, p)
    \/ \E r \in UserIds, k \in Keys : TemporaryTokenDestroy_destroy(r, k)
    \/ \E r \in Requesters, pk \in PkDomain : UserViewSet_destroy(r, pk)

SpecSession == InitAccount /\ [][NextSession]_vars

\* ---- the claims --------------------------------------------------------------

\* number of stored ActionToken rows of a key and a type
NumTokens(key, type) ==
    LET rows == {t \in BagToSet(actionTokens) : t.key = key /\ t.type = type}
    IN  BagCardinality([t \in rows |-> actionTokens[t]])

\* number of stored password_change rows of a key that have not expired
NumValidPasswordTokens(key) ==
    LET rows == {t \in BagToSet(actionTokens) :
                    t.key = key /\ t.type = "password_change" /\ ~t.expired}
    IN  BagCardinality([t \in rows |-> actionTokens[t]])

\* the user row a pk of the URL names for a requester
Target(requester, pk) == IF pk = Me THEN requester ELSE pk

\* the requester may access the row: its own, or any row for staff
MayAccess(requester, obj) == requester = obj \/ users[requester].is_staff

\* every row but u's is the same before and after the step
OtherUsersUnchanged(u) ==
    /\ DOMAIN users' = DOMAIN users
    /\ \A v \in DOMAIN users \ {u} : users'[v] = users[v]

ActivationKeys == Keys \cup {None}

\* C1: an activation post whose key matches exactly one account_activation
\* token sets that token's user active, deletes that token and no other,
\* changes no other user and no other field, and answers 200 with the user.
C1_ActivationSucceeds ==
    [][LET k == resp'.arg
       IN  (resp'.op = "activate" /\ UsersActivation_post(k)
            /\ NumTokens(k, "account_activation") = 1) =>
            \E t \in BagToSet(actionTokens) :
               /\ t.key = k /\ t.type = "account_activation"
               /\ users'[t.user] = [users[t.user] EXCEPT !.is_active = TRUE]
               /\ OtherUsersUnchanged(t.user)
               /\ ~BagIn(t, actionTokens')
               /\ \A x \in BagToSet(actionTokens) \ {t} :
                     BagIn(x, actionTokens')
                     /\ CopiesIn(x, actionTokens') = CopiesIn(x, actionTokens)
               /\ BagToSet(actionTokens') \subseteq BagToSet(actionTokens)
               /\ resp'.status = 200
               /\ resp'.body = t.user]_vars

\* C1 witness: an activation succeeded for a user that was inactive, with
\* another user and another token in the store
C1_Witness ==
    /\ resp.op = "activate" /\ resp.status = 200
    /\ users[resp.body].is_active
    /\ DOMAIN users # {resp.body}
    /\ actionTokens # EmptyBag

\* C2: an activation post whose key matches no or several account_activation
\* tokens (no key, an unknown key, the key of a token of another type, a key
\* stored twice) answers 400 with an activation_token error and changes no
\* user and no token.
C2_ActivationRejected ==
    [][LET k == resp'.arg
       IN  (resp'.op = "activate" /\ UsersActivation_post(k)
            /\ NumTokens(k, "account_activation") # 1) =>
            /\ resp'.status = 400
            /\ resp'.error = "activation_token"
            /\ users' = users
            /\ actionTokens' = actionTokens]_vars

\* C2 witness: a rejected activation whose key is stored twice, and one whose
\* key is the key of a password_change token only
C2_Witness ==
    /\ resp.op = "activate" /\ resp.status = 400
    /\ \/ NumTokens(resp.arg, "account_activation") > 1
       \/ NumTokens(resp.arg, "account_activation") = 0
          /\ NumTokens(resp.arg, "password_change") = 1

\* C3: once an activation with key k has succeeded, every later activation
\* with k answers 400 and changes no user, until a token with key k is issued
\* again (used holds exactly those keys).
C3_SingleUse ==
    [][LET k == resp'.arg
       IN  (resp'.op = "activate" /\ UsersActivation_post(k) /\ k \in used) =>
            /\ resp'.status = 400
            /\ users' = users]_vars

\* C3 witness: an activation with a consumed key was rejected
C3_Witness ==
    /\ resp.op = "activate" /\ resp.status = 400
    /\ resp.arg \in used

\* C4 as stated: destroy on an existing user sets is_active to False and
\* answers 204, whoever asks.
C4_AsStated ==
    [][LET r == resp'.who
           pk == resp'.arg
       IN  (resp'.op = "destroy" /\ UserViewSet_destroy(r, pk)
            /\ Target(r, pk) \in DOMAIN users) =>
              /\ ~users'[Target(r, pk)].is_active
              /\ resp'.status = 204]_vars

\* C4 amended: destroy on an existing user that the requester may access (its
\* own row, or any row for staff) sets that user's is_active to False, changes
\* nothing else, keeps the row and answers 204; on a row the requester may not
\* access it answers 403 and changes nothing; and no step of any handler
\* removes a row of the User table.
C4_SoftDelete ==
    [][/\ DOMAIN users \subseteq DOMAIN users'
       /\ LET r == resp'.who
              pk == resp'.arg
          IN  (resp'.op = "destroy" /\ UserViewSet_destroy(r, pk)
               /\ Target(r, pk) \in DOMAIN users) =>
                 IF MayAccess(r, Target(r, pk))
                 THEN /\ users'[Target(r, pk)] =
                            [users[Target(r, pk)] EXCEPT !.is_active = FALSE]
                      /\ OtherUsersUnchanged(Target(r, pk))
                      /\ resp'.status = 204
                 ELSE /\ users' = users
                      /\ resp'.status = 403]_vars

\* C4 witness: a destroy deactivated a user that was active, and the row is
\* still stored
C4_Witness ==
    /\ resp.op = "destroy" /\ resp.status = 204
    /\ Target(resp.who, resp.arg) \in DOMAIN users
    /\ ~users[Target(resp.who, resp.arg)].is_active
    /\ Cardinality(DOMAIN users) > 1

\* C5: a password change with a valid password_change token and a new
\* password sets the password of the token's owner to the new password,
\* changes no other user, and expires that token; a later change with a key
\* that was consumed changes no password.
C5_ChangePassword ==
    [][\A k \in ActivationKeys, p \in Passwords :
         /\ (ChangePassword_post(k, p) /\ NumValidPasswordTokens(k) = 1) =>
               \E t \in BagToSet(actionTokens) :
                  /\ t.key = k /\ t.type = "password_change" /\ ~t.expired
                  /\ check_password(p, users'[t.user].password)
                  /\ \A q \in Passwords \ {p} : ~check_password(q, users'[t.user].password)
                  /\ users'[t.user] = [users[t.user] EXCEPT !.password = users'[t.user].password]
                  /\ OtherUsersUnchanged(t.user)
                  /\ NumValidPasswordTokens(k)' = 0
                  /\ BagIn([t EXCEPT !.expired = TRUE], actionTokens')
                  /\ resp'.status = 200
                  /\ resp'.body = t.user
         /\ (ChangePassword_post(k, p) /\ k \in spent) =>
               /\ users' = users
               /\ resp'.status = 400]_vars

\* C5 witness: a change with a consumed key was rejected, the owner keeping
\* the password the first change set
C5_Witness ==
    /\ resp.op = "change" /\ resp.status = 400
    /\ resp.arg \in spent
    /\ \E u \in DOMAIN users : check_password("pw2", users[u].password)

\* C6: a password change whose key matches no valid password_change token, or
\* several, answers 400 and changes no user and no token.
C6_ChangeRejected ==
    [][\A k \in ActivationKeys, p \in Passwords \cup {""} :
         (ChangePassword_post(k, p) /\ NumValidPasswordTokens(k) # 1) =>
            /\ resp'.status = 400
            /\ users' = users
            /\ actionTokens' = actionTokens]_vars

\* C6 witness: a rejected change whose key is the key of two valid tokens
C6_Witness ==
    /\ resp.op = "change" /\ resp.status = 400
    /\ NumValidPasswordTokens(resp.arg) > 1

\* C7: ResetPassword answers 501 for every body when EMAIL_SERVICE is not
\* True, sending no mail and issuing no token; when it is True an invalid
\* body gets 400 and nothing is sent, and a valid body gets 201 with exactly
\* one reset mail and one password_change token, for the user the body names.
C7_ResetPassword ==
    [][\A email \in UserIds \cup {MaxUsers + 1} :
         ResetPassword_post(email) =>
            IF settings.EMAIL_SERVICE # "True"
            THEN /\ resp'.status = 501
                 /\ resp'.sent = <<>>
                 /\ actionTokens' = actionTokens
            ELSE IF email \notin DOMAIN users
            THEN /\ resp'.status = 400
                 /\ resp'.sent = <<>>
                 /\ actionTokens' = actionTokens
            ELSE /\ resp'.status = 201
                 /\ resp'.sent = <<[mail |-> "reset_password", to |-> email]>>
                 /\ \E t \in BagToSet(actionTokens') :
                       /\ t.type = "password_change" /\ t.user = email /\ ~t.expired
                       /\ ~BagIn(t, actionTokens)
                       /\ actionTokens' = actionTokens (+) SetToBag({t})]_vars

\* C7 witness: a reset for a stored user was answered 501
C7_Witness ==
    /\ resp.op = "reset" /\ resp.status = 501
    /\ resp.arg \in DOMAIN users
    /\ settings.EMAIL_SERVICE # "True"

\* C8: retrieve, update and partial_update never answer 404 to a requester
\* who is not staff, and answer 403 when the target is not stored; they answer
\* 404 to a staff requester whose target is not stored.
C8_NotFoundHidden ==
    resp.op \in {"retrieve", "update", "partial_update"} =>
        LET missing == Target(resp.who, resp.arg) \notin DOMAIN users
        IN  IF users[resp.who].is_staff
            THEN missing => resp.status = 404
            ELSE /\ resp.status # 404
                 /\ missing => resp.status = 403

\* C8 witness: a requester who is not staff asked for a user that is not stored
C8_Witness ==
    /\ resp.op \in {"update", "partial_update"}
    /\ ~users[resp.who].is_staff
    /\ Target(resp.who, resp.arg) \notin DOMAIN users
    /\ resp.status = 403

\* C9: a TemporaryToken appears only in a login that answers 200, bound to the
\* user whose valid credentials the login carried; a login with credentials
\* that are not valid creates none; a token disappears only in a logout by its
\* own user that names its key.
C9_TokenLifecycle ==
    [][/\ \A t \in tempTokens' \ tempTokens :
            /\ resp'.op = "login" /\ resp'.status = 200
            /\ resp'.arg = t.user /\ resp'.body = t.key
            /\ \E p \in Passwords :
                  /\ ObtainTemporaryAuthToken_post(t.user, p)
                  /\ users[t.user].password = make_password(p)
       /\ \A u \in UserIds, p \in Passwords :
            (ObtainTemporaryAuthToken_post(u, p)
             /\ (u \notin DOMAIN users \/ users[u].password # make_password(p))) =>
               /\ resp'.status = 400
               /\ tempTokens' = tempTokens
       /\ \A t \in tempTokens \ tempTokens' :
            /\ resp'.op = "logout"
            /\ resp'.arg = t.key
            /\ resp'.who = t.user]_vars

\* C9 witness: a logout that named the key of another user's token found
\* nothing, and the token is still stored
C9_Witness ==
    /\ resp.op = "logout" /\ resp.status = 404
    /\ \E t \in tempTokens : t.key = resp.arg /\ t.user # resp.who

\* C10 as stated: destroy repeated on an existing user answers 204 both times
\* and leaves the user inactive, whoever asks.
C10_AsStated ==
    (resp.op = "destroy" /\ resp.again /\ Target(resp.who, resp.arg) \in DOMAIN users) =>
        /\ resp.status = 204
        /\ ~users[Target(resp.who, resp.arg)].is_active

\* C10 amended: destroy on a target that is not stored answers 204 and changes
\* no user; destroy repeated by the same requester on the same user changes
\* nothing the first call did not and gets the same answer: 204 with the row
\* stored and inactive when the requester may access it, 403 when not.
C10_DestroyIdempotent ==
    [][/\ LET r == resp'.who
              pk == resp'.arg
          IN  (resp'.op = "destroy" /\ UserViewSet_destroy(r, pk)
               /\ Target(r, pk) \notin DOMAIN users) =>
                 /\ resp'.status = 204
                 /\ users' = users
       /\ (resp'.op = "destroy" /\ resp'.again) =>
            /\ users' = users
            /\ resp'.status = resp.status
            /\ Target(resp'.who, resp'.arg) \in DOMAIN users =>
                  IF MayAccess(resp'.who, Target(resp'.who, resp'.arg))
                  THEN /\ resp'.status = 204
                       /\ ~users'[Target(resp'.who, resp'.arg)].is_active
                  ELSE resp'.status = 403]_vars

\* C10 witness: the same destroy was issued twice on a stored user
C10_Witness ==
    /\ resp.op = "destroy" /\ resp.again /\ resp.status = 204
    /\ Target(resp.who, resp.arg) \in DOMAIN users
    /\ ~users[Target(resp.who, resp.arg)].is_active

====
